---- MODULE Spec2Model ----
(***************************************************************************)
(* Command dispatch of crossterm (src/utils/command.rs): the Command       *)
(* trait, and the blanket QueueableCommand / ExecutableCommand             *)
(* implementations for every io::Write sink.                               *)
(*                                                                         *)
(* The sink is a buffered writer: `buf` holds bytes written but not yet    *)
(* transmitted, `sent` the bytes transmitted to the terminal.  `term` is   *)
(* the list of commands applied through the direct (WinAPI) path.          *)
(***************************************************************************)
EXTENDS Integers, Sequences, FiniteSets

\* Number of calls (queue, execute, flush) made on the sink in one run.
MaxOps == 3

VARIABLES
    ansi,          \* the capability flag: the terminal honours ANSI codes
                   \* (FALSE only on Windows versions lower than 10)
    lineBuffered,  \* the sink flushes at line boundaries (stdout)
    cap,           \* capacity of the sink's internal buffer
    buf,           \* the sink's buffered, untransmitted bytes
    sent,          \* the bytes the sink has transmitted
    term,          \* commands applied by direct WinAPI calls, in order
    dispatched,    \* commands of the dispatch calls that returned Ok, in order
    failed,        \* some call on the sink has returned an error
    chain,         \* every call so far was a queue call that returned Ok
    last,          \* the last call: what it was, its result, the state before
    nOps           \* calls made so far

vars == <<ansi, lineBuffered, cap, buf, sent, term,
          dispatched, failed, chain, last, nOps>>

----------------------------------------------------------------------------
(* Bytes and commands *)

NL == "\n"

\* Decimal formatting of a natural number, most significant digit first.
RECURSIVE Digits(_)
Digits(n) ==
    LET d == <<"0", "1", "2", "3", "4", "5", "6", "7", "8", "9">>
    IN  IF n < 10 THEN <<d[n + 1]>> ELSE Digits(n \div 10) \o <<d[(n % 10) + 1]>>

\* Command values: a print command as in the doc examples, and a cursor command
\* carrying a column.
PrintCommand(text) == [kind |-> "Print", text |-> text, n |-> 0]
MoveToColumn(n) == [kind |-> "MoveToColumn", text |-> <<>>, n |-> n]

Commands ==
    { PrintCommand(<<"a">>), PrintCommand(<<"b", NL, "c">>), MoveToColumn(5), MoveToColumn(10) }

\* Command::ansi_code: the ANSI representation of the command, as displayed.
ansi_code(c) ==
    IF c.kind = "Print" THEN c.text
    ELSE <<"ESC", "[">> \o Digits(c.n) \o <<"G">>

\* Longest rendering of a command.
MaxLen == CHOOSE n \in 0..8 : /\ \A c \in Commands : Len(ansi_code(c)) <= n
                              /\ \E c \in Commands : Len(ansi_code(c)) = n

RECURSIVE RenderAll(_)
RenderAll(cs) ==
    IF cs = <<>> THEN <<>> ELSE ansi_code(Head(cs)) \o RenderAll(Tail(cs))

----------------------------------------------------------------------------
(* The sink: io::Write *)

Min(a, b) == IF a < b THEN a ELSE b

\* Index of the last line break of data, 0 when it has none.
LastNL(data) ==
    LET idx == { i \in 1..Len(data) : data[i] = NL }
    IN  IF idx = {} THEN 0 ELSE CHOOSE i \in idx : \A j \in idx : j <= i

\* A world is what one call can change, plus the primitives it attempted.
World == [buf |-> buf, sent |-> sent, term |-> term,
          nwrite |-> 0, nflush |-> 0, ndirect |-> 0, errs |-> <<>>]

\* Buffered write of data behind what is already buffered: the buffer is
\* flushed for the caller when data does not fit, and data as large as the
\* buffer goes straight through.
BufferedWrite(w, data) ==
    LET flushed == IF Len(data) > cap - Len(w.buf)
                   THEN [w EXCEPT !.sent = @ \o w.buf, !.buf = <<>>]
                   ELSE w
    IN  IF Len(data) >= cap
        THEN [flushed EXCEPT !.sent = @ \o data]
        ELSE [flushed EXCEPT !.buf = @ \o data]

\* Write::write_all on the sink.  A sink whose write fails takes nothing.
write_all(w, data, fail) ==
    IF fail
    THEN [w |-> [w EXCEPT !.nwrite = @ + 1, !.errs = Append(@, "Err(write)")],
          r |-> "Err(write)"]
    ELSE LET n == IF lineBuffered THEN LastNL(data) ELSE 0
             lines == SubSeq(data, 1, n)
             tail == SubSeq(data, n + 1, Len(data))
             w1 == [w EXCEPT !.nwrite = @ + 1]
             w2 == IF n = 0 THEN w1
                   ELSE [w1 EXCEPT !.sent = @ \o w1.buf \o lines, !.buf = <<>>]
         IN  [w |-> BufferedWrite(w2, tail), r |-> "Ok(())"]

\* Write::flush on the sink.  A failing flush may have transmitted the first
\* k buffered bytes; the rest stays buffered.
flush(w, fail, k) ==
    IF fail
    THEN LET j == Min(k, Len(w.buf))
         IN  [w |-> [w EXCEPT !.sent = @ \o SubSeq(w.buf, 1, j),
                              !.buf = SubSeq(w.buf, j + 1, Len(w.buf)),
                              !.nflush = @ + 1,
                              !.errs = Append(@, "Err(flush)")],
              r |-> "Err(flush)"]
    ELSE [w |-> [w EXCEPT !.sent = @ \o w.buf, !.buf = <<>>, !.nflush = @ + 1],
          r |-> "Ok(())"]

----------------------------------------------------------------------------
(* The command's direct path and the dispatch macros *)

\* Command::execute_winapi: the direct WinAPI call.
execute_winapi(w, c, fail) ==
    IF fail
    THEN [w |-> [w EXCEPT !.ndirect = @ + 1, !.errs = Append(@, "Err(winapi)")],
          r |-> "Err(winapi)"]
    ELSE [w |-> [w EXCEPT !.ndirect = @ + 1, !.term = Append(@, c)],
          r |-> "Ok(())"]

supports_ansi == ansi

\* queue!(sink, command)
QueueMacro(w, c, env) ==
    IF supports_ansi
    THEN write_all(w, ansi_code(c), env.wfail)
    ELSE execute_winapi(w, c, env.dfail)

\* execute!(sink, command)
ExecuteMacro(w, c, env) ==
    IF supports_ansi
    THEN LET a == write_all(w, ansi_code(c), env.wfail)
         IN  IF a.r # "Ok(())" THEN a ELSE flush(a.w, env.ffail, env.k)
    ELSE execute_winapi(w, c, env.dfail)

----------------------------------------------------------------------------
(* QueueableCommand::queue and ExecutableCommand::execute *)

\* queue without the `?`: the macro's result is dropped.
queue_swallows_error(w, c, env) ==
    LET m == QueueMacro(w, c, env)
    IN  [w |-> m.w, r |-> "Ok(self)"]

\* queue expanding execute! instead of queue!.
queue_with_execute_macro(w, c, env) ==
    LET m == ExecuteMacro(w, c, env)
    IN  IF m.r # "Ok(())" THEN m ELSE [w |-> m.w, r |-> "Ok(self)"]

\* execute expanding queue! instead of execute!.
execute_with_queue_macro(w, c, env) ==
    LET m == QueueMacro(w, c, env)
    IN  IF m.r # "Ok(())" THEN m ELSE [w |-> m.w, r |-> "Ok(self)"]

\* execute without the `?`: the macro's result is dropped.
execute_swallows_error(w, c, env) ==
    LET m == ExecuteMacro(w, c, env)
    IN  [w |-> m.w, r |-> "Ok(self)"]

\* execute flushing the sink itself after the macro, on either path.
execute_then_flush(w, c, env) ==
    LET m == ExecuteMacro(w, c, env)
    IN  IF m.r # "Ok(())" THEN m
        ELSE LET f == flush(m.w, env.ffail, env.k)
             IN  IF f.r # "Ok(())" THEN f ELSE [w |-> f.w, r |-> "Ok(self)"]

queue(w, c, env) ==
    LET m == QueueMacro(w, c, env)
    IN  IF m.r # "Ok(())" THEN m ELSE [w |-> m.w, r |-> "Ok(self)"]

execute(w, c, env) ==
    LET m == ExecuteMacro(w, c, env)
    IN  IF m.r # "Ok(())" THEN m ELSE [w |-> m.w, r |-> "Ok(self)"]

----------------------------------------------------------------------------
(* The state machine: a caller making calls on one sink *)

Caps == {3, 6}

NoCommand == [kind |-> "none", text |-> <<>>, n |-> 0]

\* What the environment decides for one call: whether the sink's write, the
\* sink's flush and the WinAPI call fail, and how many buffered bytes a
\* failing flush still transmits.
Envs(w) ==
    { e \in [wfail : BOOLEAN, ffail : BOOLEAN, dfail : BOOLEAN,
             k : 0..(Len(w.buf) + MaxLen)] : ~e.ffail => e.k = 0 }

Record(op, c, env, res) ==
    [op |-> op, command |-> c, r |-> res.r, wfail |-> env.wfail,
     nwrite |-> res.w.nwrite, nflush |-> res.w.nflush,
     ndirect |-> res.w.ndirect, errs |-> res.w.errs,
     preBuf |-> buf, preSent |-> sent, preTerm |-> term, preChain |-> chain]

Init ==
    /\ ansi \in BOOLEAN
    /\ lineBuffered \in BOOLEAN
    /\ cap \in Caps
    /\ buf = <<>>
    /\ sent = <<>>
    /\ term = <<>>
    /\ dispatched = <<>>
    /\ failed = FALSE
    /\ chain = TRUE
    /\ last = [op |-> "none", command |-> NoCommand, r |-> "Ok(())",
               wfail |-> FALSE, nwrite |-> 0, nflush |-> 0, ndirect |-> 0,
               errs |-> <<>>, preBuf |-> <<>>, preSent |-> <<>>,
               preTerm |-> <<>>, preChain |-> TRUE]
    /\ nOps = 0

Apply(op, c, env, res) ==
    /\ buf' = res.w.buf
    /\ sent' = res.w.sent
    /\ term' = res.w.term
    /\ last' = Record(op, c, env, res)
    /\ nOps' = nOps + 1
    /\ failed' = (failed \/ res.r \notin {"Ok(self)", "Ok(())"})
    /\ UNCHANGED <<ansi, lineBuffered, cap>>

\* sink.queue(c)
Queue ==
    /\ nOps < MaxOps
    /\ \E c \in Commands, env \in Envs(World) :
          LET res == queue(World, c, env)
          IN  /\ env.ffail = FALSE
              /\ Apply("queue", c, env, res)
              /\ dispatched' = IF res.r = "Ok(self)" THEN Append(dispatched, c)
                               ELSE dispatched
              /\ chain' = (chain /\ res.r = "Ok(self)")

\* sink.execute(c)
Execute ==
    /\ nOps < MaxOps
    /\ \E c \in Commands, env \in Envs(World) :
          LET res == execute(World, c, env)
          IN  /\ Apply("execute", c, env, res)
              /\ dispatched' = IF res.r = "Ok(self)" THEN Append(dispatched, c)
                               ELSE dispatched
              /\ chain' = FALSE

\* sink.flush() called by the caller
Flush ==
    /\ nOps < MaxOps
    /\ \E env \in Envs(World) :
          LET res == flush(World, env.ffail, env.k)
          IN  /\ env.wfail = FALSE
              /\ env.dfail = FALSE
              /\ Apply("flush", NoCommand, env, res)
              /\ UNCHANGED dispatched
              /\ chain' = FALSE

Next == Queue \/ Execute \/ Flush

Spec == Init /\ [][Next]_vars

----------------------------------------------------------------------------
(* Properties *)

Render == ansi_code(last.command)
Dispatch == last.op \in {"queue", "execute"}
EndsWith(s, t) == Len(t) <= Len(s) /\ SubSeq(s, Len(s) - Len(t) + 1, Len(s)) = t

\* C1: on the ANSI path, when execute(command) returns Ok the sink is
\* flushed: its buffer is empty and the transmitted content ends with the
\* command's rendering.
ExecuteLeavesSinkFlushed ==
    (ansi /\ last.op = "execute" /\ last.r = "Ok(self)")
        => /\ buf = <<>>
           /\ EndsWith(sent, Render)

ExecuteOnPendingSink ==
    /\ ansi /\ last.op = "execute" /\ last.r = "Ok(self)"
    /\ last.preBuf # <<>>
    /\ Len(sent) > Len(last.preSent)

\* C2: on the ANSI path, from an empty sink, a chain of queue calls that all
\* returned Ok followed by one explicit flush leaves the transmitted content
\* equal to the renderings of the queued commands, concatenated in call order.
ChainThenFlushTransmitsInOrder ==
    (ansi /\ last.op = "flush" /\ last.r = "Ok(())" /\ last.preChain)
        => /\ sent = RenderAll(dispatched)
           /\ buf = <<>>

ChainOfTwoFlushed ==
    /\ ansi /\ last.op = "flush" /\ last.r = "Ok(())" /\ last.preChain
    /\ Len(dispatched) >= 2
    /\ dispatched[1] # dispatched[2]

\* C3: on the ANSI path, queue(command) writes the rendering into the sink
\* and does not flush it: the sink is never asked to flush, nothing written
\* is lost, and unless the buffer was too full for the text or the sink is
\* line buffered and the text has a line break, the text stays buffered
\* behind what was buffered before and nothing more is transmitted.
Fits == Len(Render) <= cap - Len(last.preBuf) /\ Len(Render) < cap
HasLine == lineBuffered /\ LastNL(Render) > 0

QueueDoesNotFlush ==
    (ansi /\ last.op = "queue" /\ last.r = "Ok(self)")
        => /\ last.nflush = 0
           /\ last.nwrite = 1
           /\ sent \o buf = last.preSent \o last.preBuf \o Render
           /\ (Fits /\ ~HasLine) => /\ sent = last.preSent
                                    /\ buf = last.preBuf \o Render

QueuedTextHeld ==
    /\ ansi /\ last.op = "queue" /\ last.r = "Ok(self)"
    /\ last.preBuf # <<>>
    /\ buf = last.preBuf \o Render
    /\ sent = last.preSent

\* C4: on a platform without ANSI support, from every reachable state and
\* for every command and every outcome of the primitives, queue and execute
\* return the same result and leave the same state, having made the direct
\* call once and written nothing to the sink.
LegacyQueueEqualsExecute ==
    ~ansi =>
        \A c \in Commands, env \in Envs(World) :
            LET q == queue(World, c, env)
                e == execute(World, c, env)
            IN  /\ q = e
                /\ q.w.ndirect = 1
                /\ q.w.nwrite = 0 /\ q.w.nflush = 0
                /\ q.r = "Ok(self)" => q.w.term = Append(term, c)
                /\ q.r # "Ok(self)" => q.r = "Err(winapi)" /\ env.dfail

LegacyQueueActed ==
    /\ ~ansi /\ last.op = "queue" /\ last.r = "Ok(self)"
    /\ term = Append(last.preTerm, last.command)
    /\ last.preTerm # <<>>

\* C5: every dispatch takes exactly one path, chosen by the capability flag:
\* with ANSI support the rendering is written to the sink and no direct call
\* is made; without it the direct call is made and the sink is neither
\* written, flushed nor changed.
ExactlyOnePath ==
    Dispatch =>
        IF ansi
        THEN /\ last.nwrite = 1 /\ last.ndirect = 0
             /\ term = last.preTerm
        ELSE /\ last.ndirect = 1 /\ last.nwrite = 0 /\ last.nflush = 0
             /\ buf = last.preBuf /\ sent = last.preSent

BothPathsSeen ==
    /\ ~ansi /\ last.op = "execute" /\ last.r = "Ok(self)"
    /\ Len(term) >= 2

\* C6 as stated: whenever the sink's write is configured to fail, queue and
\* execute return the write failure and the buffer is unchanged.
WriteFailureAlwaysReturned ==
    (Dispatch /\ last.wfail)
        => /\ last.r = "Err(write)"
           /\ buf = last.preBuf

\* C6 amended: on the ANSI path a failing sink write makes queue and execute
\* return the write failure with the sink unchanged; without ANSI support
\* the sink is not written at all and stays unchanged.
WriteFailureReturnedOnAnsiPath ==
    (Dispatch /\ last.wfail)
        => /\ buf = last.preBuf /\ sent = last.preSent
           /\ ansi => /\ last.r = "Err(write)"
                      /\ last.nflush = 0
           /\ ~ansi => last.nwrite = 0

ExecuteWriteFailed ==
    /\ ansi /\ last.op = "execute" /\ last.wfail
    /\ last.r = "Err(write)"
    /\ last.preBuf # <<>>

\* C7: a dispatch attempts each primitive at most once, queue never flushes,
\* and the call returns Ok exactly when no primitive it attempted failed;
\* otherwise it returns the failing primitive's error (write, flush or
\* direct call) as it was raised.
FailuresPropagate ==
    Dispatch =>
        /\ last.nwrite <= 1 /\ last.nflush <= 1 /\ last.ndirect <= 1
        /\ last.op = "queue" => last.nflush = 0
        /\ (last.r = "Ok(self)") <=> (last.errs = <<>>)
        /\ \A i \in 1..Len(last.errs) : last.r = last.errs[i]
        /\ last.r \in {"Ok(self)", "Err(write)", "Err(flush)", "Err(winapi)"}

DirectCallFailed ==
    /\ ~ansi /\ last.op = "queue"
    /\ last.r = "Err(winapi)"
    /\ last.ndirect = 1

\* C8: a dispatch that returns Ok has applied the whole command: on the ANSI
\* path its whole rendering is in the sink behind what was there (and, for
\* execute, transmitted); on the direct path the command has been applied.
\* An execute whose write succeeded and whose flush failed returns the error.
NoPartialSuccess ==
    /\ (Dispatch /\ last.r = "Ok(self)") =>
          IF ansi
          THEN /\ sent \o buf = last.preSent \o last.preBuf \o Render
               /\ last.op = "execute" => buf = <<>>
          ELSE term = Append(last.preTerm, last.command)
    /\ (last.op = "execute" /\ last.nflush = 1 /\ last.errs # <<>>)
          => last.r # "Ok(self)"

WriteOkFlushFailed ==
    /\ ansi /\ last.op = "execute"
    /\ last.nwrite = 1 /\ last.nflush = 1
    /\ last.r = "Err(flush)"
    /\ buf # <<>>

\* C10: on the ANSI path, as long as every queue, execute and flush call has
\* returned Ok, the transmitted content followed by the buffered content is
\* the renderings of the dispatched commands concatenated in dispatch order;
\* after an execute all of it has been transmitted.
OrderPreserved ==
    (ansi /\ ~failed)
        => /\ sent \o buf = RenderAll(dispatched)
           /\ last.op = "execute" => sent = RenderAll(dispatched)

ExecuteAfterQueue ==
    /\ ansi /\ ~failed /\ last.op = "execute"
    /\ Len(dispatched) = 2
    /\ dispatched[1] # dispatched[2]
    /\ last.preBuf = ansi_code(dispatched[1])

====
